---- MODULE Spec2Model ----
(***************************************************************************)
(* converse-chronicle: the recording service (backend/src/controllers.ts)  *)
(* and the recording detail view                                           *)
(* (frontend/app/components/RecordingDetails.tsx).                         *)
(*                                                                         *)
(* Every handler is an async function; one action of the model is the      *)
(* code that runs between two awaits, together with the completion of the  *)
(* awaited call that starts it.                                            *)
(***************************************************************************)
EXTENDS Integers, Sequences, FiniteSets, TLC

\* ------------------------------------------------------------------ bounds

\* Number of createRecording invocations (each runs once, concurrently).
MaxCreates == 2
\* Submitted audio buffers are 0..MaxBody; buffer 0 is not decodable audio.
MaxBody == 2
\* Number of updateRecording calls.
MaxUpdates == 1

Creators == 1..MaxCreates
Users == {"u1", "u2"}
Bodies == 0..MaxBody

\* ------------------------------------------------------------ plain values

\* null / undefined of an optional value; Some(v) is a present value.
Null == <<>>
Some(v) == <<v>>
\* a ?? b
Coalesce(opt, default) == IF opt = Null THEN default ELSE opt[1]
\* An argument left out of an UpdateRequest.
Undefined == "<undefined>"

FILE_EXTENSION == ".m4a"
BUCKET_NAME == "recordings"

\* The audio a buffer holds: whether a duration can be probed at all, and its
\* true playback length in tenths of a second.
Decodable(body) == body > 0
PlaybackTenths(body) == 12 * body + 3

\* Math.round of a non-negative length given in tenths of a second.
MathRound(tenths) == (tenths + 5) \div 10

\* What the transcription service may answer for a buffer: a full result, or
\* one with only the transcript (title, summary, topics, utterances null).
TranscribeOutcomes(body) ==
    { [transcript |-> "transcript of " \o ToString(body),
       title |-> Some("title of " \o ToString(body)),
       shortSummary |-> Some("summary of " \o ToString(body)),
       allTopics |-> Some(<<"greeting", "topic of " \o ToString(body)>>),
       allUtterances |-> Some(<<[speaker |-> "A",
                                 transcript |-> "hi " \o ToString(body),
                                 start |-> 0, end |-> 1]>>)],
      [transcript |-> "transcript of " \o ToString(body),
       title |-> Null, shortSummary |-> Null,
       allTopics |-> Null, allUtterances |-> Null] }

\* `conversation_${new Date().toLocaleDateString()}`
PlaceholderTitle == "conversation_<date>"

\* ------------------------------------------------------------------- state

VARIABLES
    \* createRecording, one invocation per creator
    pc,                 \* the await the invocation is suspended at
    userId,             \* req.userId
    recordingBody,      \* req.recordingBody
    tempFilePath,       \* scratch file path
    durationInSeconds,  \* Null until probed
    transcription,      \* Null until transcribeFile resolved
    filePath,           \* storage key
    newRecording,       \* Null until returned: the handler's result
    failedAt,           \* the await that rejected, "" if none
    \* the world the handlers act on
    uuidCount,          \* uuid() calls made so far
    fs,                 \* scratch directory: path -> bytes
    storage,            \* object storage bucket: key -> bytes
    conversations,      \* Conversation rows
    topics,             \* Topic rows
    utterances,         \* Utterance rows
    nextConvId,         \* next generated Conversation id
    now,                \* the database clock
    nUpdates,           \* updateRecording calls made
    \* getRecording / listRecordings, one reader
    readerPc,
    recordingId,        \* req.recordingId of the getRecording in flight
    conversation,       \* what findUnique returned
    recordingUrl,       \* the signed URL minted for the request, Null if none
    response,           \* what getRecording returned
    conversationsInfo,  \* what listRecordings returned
    \* RecordingDetails, one instance of the detail view
    mounted,            \* FALSE once the component has unmounted
    isLoading,
    error,
    recordingDetails,
    sound,              \* Null, or the player held in state
    isPlaying,
    isLoadingAudio,
    position,
    duration,
    fetchPc,            \* the await fetchRecordingDetails is suspended at
    downloadPc,         \* the await downloadAudio is suspended at
    pressed,            \* playRecording calls awaiting the player, oldest first
    players             \* the native players Audio.Sound.createAsync has made

createVars == <<pc, userId, recordingBody, tempFilePath, durationInSeconds,
                transcription, filePath, newRecording, failedAt>>
dbVars == <<conversations, topics, utterances, nextConvId, now>>
readerVars == <<readerPc, recordingId, conversation, recordingUrl, response,
                conversationsInfo>>
backendVars == <<createVars, uuidCount, fs, storage, dbVars, nUpdates,
                 readerVars>>
viewVars == <<mounted, isLoading, error, recordingDetails, sound, isPlaying,
              isLoadingAudio, position, duration, fetchPc, downloadPc, pressed,
              players>>
vars == <<backendVars, viewVars>>

\* ---------------------------------------------------------------- helpers

\* uuid(): a value no earlier call returned.
Uuid == uuidCount + 1

\* Mutant: the scratch file named after the user instead of a fresh uuid.
TempFilePath_perUser(u, id) == "/tmp/" \o u \o FILE_EXTENSION

\* join(tmpdir(), `${uuid()}${FILE_EXTENSION}`)
TempFilePath(u, id) == "/tmp/" \o ToString(id) \o FILE_EXTENSION

\* Mutant: the storage key without the recording id.
FilePath_perUser(u, id) == u \o "/recording" \o FILE_EXTENSION

\* `${userId}/${recordingId}` + FILE_EXTENSION
FilePath(u, id) == u \o "/" \o ToString(id) \o FILE_EXTENSION

\* A file or object map without one key.
Without(f, k) == [x \in DOMAIN f \ {k} |-> f[x]]

\* topics: allTopics ? { create: allTopics.map(...) } : {}
TopicRows(id, allTopics) ==
    IF allTopics = Null THEN {}
    ELSE { [conversationId |-> id, n |-> i, topic |-> allTopics[1][i]] :
           i \in DOMAIN allTopics[1] }

\* utterances: allUtterances ? { create: allUtterances.map(...) } : {}
UtteranceRows(id, allUtterances) ==
    IF allUtterances = Null THEN {}
    ELSE { [conversationId |-> id, n |-> i,
            speaker |-> allUtterances[1][i].speaker,
            transcript |-> allUtterances[1][i].transcript,
            start |-> allUtterances[1][i].start,
            end |-> allUtterances[1][i].end] :
           i \in DOMAIN allUtterances[1] }

RowsWithId(id) == { r \in conversations : r.id = id }

\* uploadBuffer(BUCKET_NAME, path, body, contentType): the bucket afterwards.
UploadBuffer(bucket, path, body) == (path :> body) @@ bucket

\* generatePresignedUrl(BUCKET_NAME, file_path)
PresignedUrl(file_path) == [bucket |-> BUCKET_NAME, path |-> file_path]

\* What a signed URL resolves to when fetched.
Fetch(url) ==
    IF url.path \in DOMAIN storage THEN Some(storage[url.path]) ELSE Null

\* ------------------------------------------------------------------- Init

Init ==
    /\ pc = [p \in Creators |-> "idle"]
    /\ userId = [p \in Creators |-> ""]
    /\ recordingBody = [p \in Creators |-> 0]
    /\ tempFilePath = [p \in Creators |-> ""]
    /\ durationInSeconds = [p \in Creators |-> Null]
    /\ transcription = [p \in Creators |-> Null]
    /\ filePath = [p \in Creators |-> ""]
    /\ newRecording = [p \in Creators |-> Null]
    /\ failedAt = [p \in Creators |-> ""]
    /\ uuidCount = 0
    /\ fs = <<>>
    /\ storage = <<>>
    /\ conversations = {}
    /\ topics = {}
    /\ utterances = {}
    /\ nextConvId = 1
    /\ now = 1
    /\ nUpdates = 0
    /\ readerPc = "idle"
    /\ recordingId = 0
    /\ conversation = Null
    /\ recordingUrl = Null
    /\ response = Null
    /\ conversationsInfo = {}
    \* useState initial values (lines 46-57); no effect has run yet
    /\ mounted = TRUE
    /\ isLoading = TRUE
    /\ error = Null
    /\ recordingDetails = Null
    /\ sound = Null
    /\ isPlaying = FALSE
    /\ isLoadingAudio = FALSE
    /\ position = 0
    /\ duration = 0
    /\ fetchPc = "init"
    /\ downloadPc = "idle"
    /\ pressed = <<>>
    /\ players = <<>>

\* --------------------------------------------------------- createRecording

\* The rejection of the pending await: the handler has no try/catch, so the
\* invocation ends there and nothing after the await runs.
Reject(p, step) ==
    /\ pc' = [pc EXCEPT ![p] = "failed"]
    /\ failedAt' = [failedAt EXCEPT ![p] = step]

\* Lines 14-18 up to the await of writeFile.
createRecording_begin(p, u, b) ==
    /\ pc[p] = "idle"
    /\ pc' = [pc EXCEPT ![p] = "writeFile"]
    /\ userId' = [userId EXCEPT ![p] = u]
    /\ recordingBody' = [recordingBody EXCEPT ![p] = b]
    /\ tempFilePath' = [tempFilePath EXCEPT ![p] = TempFilePath(u, Uuid)]
    /\ uuidCount' = uuidCount + 1
    /\ UNCHANGED <<durationInSeconds, transcription, filePath, newRecording,
                   failedAt, fs, storage, dbVars, nUpdates, readerVars>>

\* writeFile(tempFilePath, recordingBody) resolves; the probe is started.
createRecording_writeFile(p) ==
    /\ pc[p] = "writeFile"
    /\ fs' = (tempFilePath[p] :> recordingBody[p]) @@ fs
    /\ pc' = [pc EXCEPT ![p] = "getAudioDuration"]
    /\ UNCHANGED <<userId, recordingBody, tempFilePath, durationInSeconds,
                   transcription, filePath, newRecording, failedAt, uuidCount,
                   storage, dbVars, nUpdates, readerVars>>

\* writeFile rejects (the scratch directory cannot be written).
createRecording_writeFileFails(p) ==
    /\ pc[p] = "writeFile"
    /\ Reject(p, "writeFile")
    /\ UNCHANGED <<userId, recordingBody, tempFilePath, durationInSeconds,
                   transcription, filePath, newRecording, uuidCount, fs,
                   storage, dbVars, nUpdates, readerVars>>

\* getAudioDurationInSeconds(tempFilePath) settles: it reads the file at the
\* path; it rejects when the file is missing or holds no decodable audio.
\* On success line 19 rounds, and line 21 starts the unlink.
createRecording_getAudioDuration(p) ==
    /\ pc[p] = "getAudioDuration"
    /\ IF tempFilePath[p] \in DOMAIN fs /\ Decodable(fs[tempFilePath[p]])
       THEN /\ durationInSeconds' =
                  [durationInSeconds EXCEPT
                     ![p] = Some(MathRound(PlaybackTenths(fs[tempFilePath[p]])))]
            /\ pc' = [pc EXCEPT ![p] = "unlink"]
            /\ UNCHANGED failedAt
       ELSE /\ Reject(p, "getAudioDuration")
            /\ UNCHANGED durationInSeconds
    /\ UNCHANGED <<userId, recordingBody, tempFilePath, transcription,
                   filePath, newRecording, uuidCount, fs, storage, dbVars,
                   nUpdates, readerVars>>

\* unlink(tempFilePath) settles (it rejects when the file is missing); on
\* success line 35 starts the transcription.
createRecording_unlink(p) ==
    /\ pc[p] = "unlink"
    /\ IF tempFilePath[p] \in DOMAIN fs
       THEN /\ fs' = Without(fs, tempFilePath[p])
            /\ pc' = [pc EXCEPT ![p] = "transcribeFile"]
            /\ UNCHANGED failedAt
       ELSE /\ Reject(p, "unlink")
            /\ UNCHANGED fs
    /\ UNCHANGED <<userId, recordingBody, tempFilePath, durationInSeconds,
                   transcription, filePath, newRecording, uuidCount, storage,
                   dbVars, nUpdates, readerVars>>

\* transcribeFile(recordingBody) resolves; lines 39-41 make the storage key
\* from a fresh uuid and start the upload.
createRecording_transcribeFile(p, tr) ==
    /\ pc[p] = "transcribeFile"
    /\ tr \in TranscribeOutcomes(recordingBody[p])
    /\ transcription' = [transcription EXCEPT ![p] = Some(tr)]
    /\ filePath' = [filePath EXCEPT ![p] = FilePath(userId[p], Uuid)]
    /\ uuidCount' = uuidCount + 1
    /\ pc' = [pc EXCEPT ![p] = "uploadBuffer"]
    /\ UNCHANGED <<userId, recordingBody, tempFilePath, durationInSeconds,
                   newRecording, failedAt, fs, storage, dbVars, nUpdates,
                   readerVars>>

\* transcribeFile rejects.
createRecording_transcribeFileFails(p) ==
    /\ pc[p] = "transcribeFile"
    /\ Reject(p, "transcribeFile")
    /\ UNCHANGED <<userId, recordingBody, tempFilePath, durationInSeconds,
                   transcription, filePath, newRecording, uuidCount, fs,
                   storage, dbVars, nUpdates, readerVars>>

\* uploadBuffer(BUCKET_NAME, filePath, recordingBody, ...) resolves; the insert
\* is started.
createRecording_uploadBuffer(p) ==
    /\ pc[p] = "uploadBuffer"
    /\ storage' = UploadBuffer(storage, filePath[p], recordingBody[p])
    /\ pc' = [pc EXCEPT ![p] = "create"]
    /\ UNCHANGED <<userId, recordingBody, tempFilePath, durationInSeconds,
                   transcription, filePath, newRecording, failedAt, uuidCount,
                   fs, dbVars, nUpdates, readerVars>>

\* uploadBuffer rejects.
createRecording_uploadBufferFails(p) ==
    /\ pc[p] = "uploadBuffer"
    /\ Reject(p, "uploadBuffer")
    /\ UNCHANGED <<userId, recordingBody, tempFilePath, durationInSeconds,
                   transcription, filePath, newRecording, uuidCount, fs,
                   storage, dbVars, nUpdates, readerVars>>

\* What the schema fills in for a new row: a generated unique id and the
\* creation and update timestamps.
SchemaDefaults == [id |-> nextConvId, createdAt |-> now, updatedAt |-> now]

\* The row prisma.conversation.create writes (lines 45-66).
ConversationRow(p) ==
    LET tr == transcription[p][1] IN
    [id |-> SchemaDefaults.id,
     title |-> Coalesce(tr.title, PlaceholderTitle),
     userId |-> userId[p],
     recording_url |-> "",
     file_path |-> filePath[p],
     transcript |-> tr.transcript,
     summary |-> Coalesce(tr.shortSummary, ""),
     duration |-> durationInSeconds[p][1],
     createdAt |-> SchemaDefaults.createdAt,
     updatedAt |-> SchemaDefaults.updatedAt]

\* Mutant: the create call writes the row without its nested children.
createRecording_create_rowOnly(p) ==
    LET tr == transcription[p][1]
        row == ConversationRow(p) IN
    /\ pc[p] = "create"
    /\ conversations' = conversations \cup {row}
    /\ nextConvId' = nextConvId + 1
    /\ now' = now + 1
    /\ newRecording' = [newRecording EXCEPT
                          ![p] = Some([row |-> row,
                                       filePath |-> filePath[p],
                                       transcript |-> tr.transcript,
                                       summary |-> Coalesce(tr.shortSummary, "")])]
    /\ pc' = [pc EXCEPT ![p] = "done"]
    /\ UNCHANGED <<userId, recordingBody, tempFilePath, durationInSeconds,
                   transcription, filePath, failedAt, uuidCount, fs, storage,
                   topics, utterances, nUpdates, readerVars>>

\* prisma.conversation.create resolves: the row and its nested topic and
\* utterance rows are written by the one call; lines 69-74 return.
createRecording_create(p) ==
    LET tr == transcription[p][1]
        row == ConversationRow(p) IN
    /\ pc[p] = "create"
    /\ conversations' = conversations \cup {row}
    /\ topics' = topics \cup TopicRows(row.id, tr.allTopics)
    /\ utterances' = utterances \cup UtteranceRows(row.id, tr.allUtterances)
    /\ nextConvId' = nextConvId + 1
    /\ now' = now + 1
    /\ newRecording' = [newRecording EXCEPT
                          ![p] = Some([row |-> row,
                                       filePath |-> filePath[p],
                                       transcript |-> tr.transcript,
                                       summary |-> Coalesce(tr.shortSummary, "")])]
    /\ pc' = [pc EXCEPT ![p] = "done"]
    /\ UNCHANGED <<userId, recordingBody, tempFilePath, durationInSeconds,
                   transcription, filePath, failedAt, uuidCount, fs, storage,
                   nUpdates, readerVars>>

\* Mutant: a failed insert is compensated by removing the uploaded object.
createRecording_createFails_compensated(p) ==
    /\ pc[p] = "create"
    /\ Reject(p, "create")
    /\ storage' = Without(storage, filePath[p])
    /\ UNCHANGED <<userId, recordingBody, tempFilePath, durationInSeconds,
                   transcription, filePath, newRecording, uuidCount, fs,
                   dbVars, nUpdates, readerVars>>

\* prisma.conversation.create rejects: nothing is written, nothing is undone.
createRecording_createFails(p) ==
    /\ pc[p] = "create"
    /\ Reject(p, "create")
    /\ UNCHANGED <<userId, recordingBody, tempFilePath, durationInSeconds,
                   transcription, filePath, newRecording, uuidCount, fs,
                   storage, dbVars, nUpdates, readerVars>>

createRecording(p) ==
    \/ \E u \in Users, b \in Bodies : createRecording_begin(p, u, b)
    \/ createRecording_writeFile(p)
    \/ createRecording_writeFileFails(p)
    \/ createRecording_getAudioDuration(p)
    \/ createRecording_unlink(p)
    \/ \E tr \in TranscribeOutcomes(recordingBody[p]) :
           createRecording_transcribeFile(p, tr)
    \/ createRecording_transcribeFileFails(p)
    \/ createRecording_uploadBuffer(p)
    \/ createRecording_uploadBufferFails(p)
    \/ createRecording_create(p)
    \/ createRecording_createFails(p)

\* ------------------------------------------------------------ getRecording

\* Ids a request may name: every id generated so far and one never generated.
RequestIds == 1..nextConvId

\* findUnique({where: {id}, include: {topics: true, utterances: true}})
FindUnique(id) ==
    IF RowsWithId(id) = {} THEN Null
    ELSE Some([row |-> CHOOSE r \in conversations : r.id = id,
               topics |-> { t \in topics : t.conversationId = id },
               utterances |-> { u \in utterances : u.conversationId = id }])

\* Mutant: the signed URL is asked for before the result is looked at.
getRecording_findUnique_signsFirst(id) ==
    /\ readerPc = "idle"
    /\ recordingId' = id
    /\ conversation' = FindUnique(id)
    /\ IF FindUnique(id) = Null
       THEN /\ readerPc' = "returned"
            /\ recordingUrl' = Some(PresignedUrl("undefined"))
            /\ response' = Null
       ELSE /\ readerPc' = "generatePresignedUrl"
            /\ UNCHANGED <<response, recordingUrl>>
    /\ UNCHANGED <<createVars, uuidCount, fs, storage, dbVars, nUpdates,
                   conversationsInfo>>

\* Lines 78-85 and 94: findUnique resolves; a null result is returned as it is,
\* otherwise the signed URL is asked for.
getRecording_findUnique(id) ==
    /\ readerPc = "idle"
    /\ recordingId' = id
    /\ conversation' = FindUnique(id)
    /\ IF FindUnique(id) = Null
       THEN /\ readerPc' = "returned"
            /\ response' = Null
       ELSE /\ readerPc' = "generatePresignedUrl"
            /\ UNCHANGED response
    /\ UNCHANGED <<createVars, uuidCount, fs, storage, dbVars, nUpdates,
                   recordingUrl, conversationsInfo>>

\* Lines 88-92: generatePresignedUrl resolves and the payload is returned.
getRecording_generatePresignedUrl ==
    /\ readerPc = "generatePresignedUrl"
    /\ recordingUrl' = Some(PresignedUrl(conversation[1].row.file_path))
    /\ response' = Some([conversation |-> conversation[1],
                         recordingUrl |->
                             PresignedUrl(conversation[1].row.file_path)])
    /\ readerPc' = "returned"
    /\ UNCHANGED <<createVars, uuidCount, fs, storage, dbVars, nUpdates,
                   recordingId, conversation, conversationsInfo>>

\* ---------------------------------------------------------- listRecordings

\* findMany({where: {userId}, select: {id, title, topics, createdAt,
\* updatedAt, duration}})
FindMany(u) ==
    { [id |-> r.id, title |-> r.title,
       topics |-> { t \in topics : t.conversationId = r.id },
       createdAt |-> r.createdAt, updatedAt |-> r.updatedAt,
       duration |-> r.duration] :
      r \in { c \in conversations : c.userId = u } }

listRecordings(u) ==
    /\ readerPc = "idle"
    /\ conversationsInfo' = FindMany(u)
    /\ readerPc' = "listed"
    /\ UNCHANGED <<createVars, uuidCount, fs, storage, dbVars, nUpdates,
                   recordingId, conversation, recordingUrl, response>>

\* The caller has taken the reader's result; the next request may start.
ReaderDone ==
    /\ readerPc \in {"returned", "listed"}
    /\ readerPc' = "idle"
    /\ recordingId' = 0
    /\ conversation' = Null
    /\ recordingUrl' = Null
    /\ response' = Null
    /\ conversationsInfo' = {}
    /\ UNCHANGED <<createVars, uuidCount, fs, storage, dbVars, nUpdates>>

\* --------------------------------------------------------- deleteRecording

\* The schema's cascade: the child rows left once Conversation `id` is deleted.
CascadeDelete(children, id) == { c \in children : c.conversationId # id }

\* Mutant: the delete removes the row and its topics, not its utterances.
deleteRecording_keepsUtterances(id) ==
    /\ RowsWithId(id) # {}
    /\ conversations' = conversations \ RowsWithId(id)
    /\ topics' = CascadeDelete(topics, id)
    /\ UNCHANGED <<createVars, uuidCount, fs, storage, utterances, nextConvId,
                   now, nUpdates, readerVars>>

\* prisma.conversation.delete({where: {id}}): the row goes, and its topic and
\* utterance rows with it; a missing row rejects and changes nothing. The
\* stored audio object is left in the bucket (line 116).
deleteRecording(id) ==
    /\ RowsWithId(id) # {}
    /\ conversations' = conversations \ RowsWithId(id)
    /\ topics' = CascadeDelete(topics, id)
    /\ utterances' = CascadeDelete(utterances, id)
    /\ UNCHANGED <<createVars, uuidCount, fs, storage, nextConvId, now,
                   nUpdates, readerVars>>

\* --------------------------------------------------------- updateRecording

\* The schema's update timestamp: every update of a row sets it.
Touched(r) == [r EXCEPT !.updatedAt = now]

\* Mutant: a field given as undefined is written all the same.
UpdatedRow_writesUndefined(r, title, transcript) ==
    Touched([r EXCEPT !.title = title, !.transcript = transcript])

\* The row after update({where: {id}, data: {title, transcript}}): a field
\* given as undefined is not written; the update timestamp is set.
UpdatedRow(r, title, transcript) ==
    Touched([r EXCEPT
               !.title = IF title = Undefined THEN @ ELSE title,
               !.transcript = IF transcript = Undefined THEN @ ELSE transcript])

\* prisma.conversation.update resolves, or rejects on a missing row and
\* changes nothing.
updateRecording(id, title, transcript) ==
    /\ nUpdates < MaxUpdates
    /\ nUpdates' = nUpdates + 1
    /\ IF RowsWithId(id) = {}
       THEN UNCHANGED <<conversations, now>>
       ELSE /\ conversations' =
                  { IF r.id = id THEN UpdatedRow(r, title, transcript) ELSE r :
                    r \in conversations }
            /\ now' = now + 1
    /\ UNCHANGED <<createVars, uuidCount, fs, storage, topics, utterances,
                   nextConvId, readerVars>>

UpdateTitles == {Undefined, "renamed"}
UpdateTranscripts == {Undefined, "edited"}

\* ======================================================== RecordingDetails

\* Number of playRecording calls that may be awaiting the player at once.
MaxPressed == 2
\* The length of the downloaded audio, in playback-status ticks.
MaxPositionMillis == 4

\* A state setter: React drops an update made after the component unmounted.
SetState(old, new) == IF mounted THEN new ELSE old

\* What response.json() may give: it rejects on a body that is no JSON; the
\* JSON null makes data.data throw; an envelope may lack data, hold null, or
\* hold the recording with or without a recordingUrl.
JsonBodies == {"invalid", "null", "{}", "{data:null}", "{data:{id}}",
               "{data:{id,recordingUrl}}"}
JsonThrows(body) == body \in {"invalid", "null"}
\* data.data
DataOf(body) ==
    CASE body = "{data:{id}}" -> Some([id |-> "r1", recordingUrl |-> ""])
      [] body = "{data:{id,recordingUrl}}" ->
             Some([id |-> "r1", recordingUrl |-> "https://signed/r1"])
      [] OTHER -> Null

\* recordingDetails?.recordingUrl is truthy
HasRecordingUrl(details) == details # Null /\ details[1].recordingUrl # ""

\* What the component renders (lines 190-329).
Phase ==
    IF isLoading THEN "loading"
    ELSE IF error # Null THEN "error"
    ELSE IF recordingDetails # Null THEN "loaded"
    ELSE "blank"

\* The effect of lines 73-75 runs fetchRecordingDetails up to the await of
\* getToken (lines 138-141).
fetchRecordingDetails_begin ==
    /\ mounted
    /\ fetchPc = "init"
    /\ isLoading' = TRUE
    /\ error' = Null
    /\ fetchPc' = "getToken"
    /\ UNCHANGED <<recordingDetails, sound, isPlaying, isLoadingAudio, position,
                   duration, downloadPc, pressed, players, mounted>>

\* catch and finally of fetchRecordingDetails (lines 156-161).
fetchRecordingDetails_catch ==
    /\ error' = SetState(error, Some("Failed to load recording details"))
    /\ isLoading' = SetState(isLoading, FALSE)
    /\ fetchPc' = "done"
    /\ UNCHANGED <<recordingDetails, sound, isPlaying, isLoadingAudio, position,
                   duration, downloadPc, pressed, players, mounted>>

\* getToken() settles; on success fetch is started.
fetchRecordingDetails_getToken(ok) ==
    /\ fetchPc = "getToken"
    /\ IF ok
       THEN /\ fetchPc' = "fetch"
            /\ UNCHANGED <<isLoading, error, recordingDetails, sound, isPlaying,
                           isLoadingAudio, position, duration, downloadPc,
                           pressed, players, mounted>>
       ELSE fetchRecordingDetails_catch

\* fetch() settles: it rejects, or resolves with response.ok false (line 150
\* throws) or true (response.json() is started).
fetchRecordingDetails_fetch(outcome) ==
    /\ fetchPc = "fetch"
    /\ IF outcome = "ok"
       THEN /\ fetchPc' = "json"
            /\ UNCHANGED <<isLoading, error, recordingDetails, sound, isPlaying,
                           isLoadingAudio, position, duration, downloadPc,
                           pressed, players, mounted>>
       ELSE fetchRecordingDetails_catch
FetchOutcomes == {"ok", "not ok", "rejected"}

\* response.json() settles; lines 153-155 and 160 set the state. The render
\* that follows runs the effect of lines 77-81, which starts downloadAudio
\* (line 90 and the await of downloadAsync) when there is a recordingUrl.
fetchRecordingDetails_json(body) ==
    /\ fetchPc = "json"
    /\ IF JsonThrows(body)
       THEN fetchRecordingDetails_catch
       ELSE /\ recordingDetails' = SetState(recordingDetails, DataOf(body))
            /\ isLoading' = SetState(isLoading, FALSE)
            /\ fetchPc' = "done"
            /\ IF mounted /\ HasRecordingUrl(DataOf(body))
               THEN /\ isLoadingAudio' = TRUE
                    /\ downloadPc' = "downloadAsync"
               ELSE UNCHANGED <<isLoadingAudio, downloadPc>>
            /\ UNCHANGED <<error, sound, isPlaying, position, duration, pressed,
                           players, mounted>>

\* catch and finally of downloadAudio (lines 109-113).
downloadAudio_catch ==
    /\ isLoadingAudio' = SetState(isLoadingAudio, FALSE)
    /\ downloadPc' = "done"
    /\ UNCHANGED <<isLoading, error, recordingDetails, sound, isPlaying,
                   position, duration, fetchPc, pressed, players, mounted>>

\* FileSystem.downloadAsync settles; on success createAsync is started.
downloadAudio_downloadAsync(ok) ==
    /\ downloadPc = "downloadAsync"
    /\ IF ok
       THEN /\ downloadPc' = "createAsync"
            /\ UNCHANGED <<isLoading, error, recordingDetails, sound, isPlaying,
                           isLoadingAudio, position, duration, fetchPc, pressed,
                           players, mounted>>
       ELSE downloadAudio_catch

\* The player the effect of lines 84-86 will unload: the one in `sound`.
\* The effect runs with the render that follows setSound, so it holds the
\* new player only if that setSound was made while mounted.
NewSound == Len(players) + 1

\* Audio.Sound.createAsync settles: on success a loaded player exists, line
\* 108 puts it in state and line 112 clears the flag.
downloadAudio_createAsync(ok) ==
    /\ downloadPc = "createAsync"
    /\ IF ok
       THEN /\ players' = Append(players, [isLoaded |-> TRUE,
                                           isPlaying |-> FALSE,
                                           positionMillis |-> 0])
            /\ sound' = SetState(sound, Some(NewSound))
            /\ isLoadingAudio' = SetState(isLoadingAudio, FALSE)
            /\ downloadPc' = "done"
            /\ UNCHANGED <<isLoading, error, recordingDetails, isPlaying,
                           position, duration, fetchPc, pressed, mounted>>
       ELSE downloadAudio_catch

\* The component unmounts: the cleanup of the effect of lines 84-86 calls
\* unloadAsync on the player in `sound`, if there is one.
Unloaded(ps, s) ==
    IF s = Null THEN ps
    ELSE [ps EXCEPT ![s[1]] = [@ EXCEPT !.isLoaded = FALSE,
                                        !.isPlaying = FALSE]]

Unmount ==
    /\ mounted
    /\ mounted' = FALSE
    /\ players' = Unloaded(players, sound)
    /\ UNCHANGED <<isLoading, error, recordingDetails, sound, isPlaying,
                   isLoadingAudio, position, duration, fetchPc, downloadPc,
                   pressed>>

\* playRecording up to its await (lines 116-125): with a sound, pauseAsync or
\* playAsync is called according to the isPlaying of the render.
playRecording_press ==
    /\ mounted
    /\ Phase = "loaded"
    /\ Len(pressed) < MaxPressed
    /\ sound # Null
    /\ pressed' = Append(pressed, IF isPlaying THEN "pauseAsync" ELSE "playAsync")
    /\ UNCHANGED <<isLoading, error, recordingDetails, sound, isPlaying,
                   isLoadingAudio, position, duration, fetchPc, downloadPc,
                   players, mounted>>

\* The oldest pauseAsync / playAsync settles: it rejects on an unloaded
\* player (caught, line 131), otherwise lines 122 / 126 set isPlaying.
playRecording_settle ==
    /\ pressed # <<>>
    /\ pressed' = Tail(pressed)
    /\ IF players[sound[1]].isLoaded
       THEN /\ players' = [players EXCEPT
                             ![sound[1]].isPlaying = (Head(pressed) = "playAsync")]
            /\ isPlaying' = SetState(isPlaying, Head(pressed) = "playAsync")
       ELSE UNCHANGED <<players, isPlaying>>
    /\ UNCHANGED <<isLoading, error, recordingDetails, sound, isLoadingAudio,
                   position, duration, fetchPc, downloadPc, mounted>>

\* The playback-status callback of lines 97-106, called by a playing player
\* as its position advances; at the end of the audio didJustFinish is set.
onPlaybackStatusUpdate(i) ==
    LET next == players[i].positionMillis + 1
        didJustFinish == next = MaxPositionMillis IN
    /\ players[i].isLoaded
    /\ players[i].isPlaying
    /\ players[i].positionMillis < MaxPositionMillis
    /\ players' = [players EXCEPT ![i].positionMillis = next,
                                  ![i].isPlaying = ~didJustFinish]
    /\ position' = SetState(position, next)
    /\ duration' = SetState(duration, MaxPositionMillis)
    /\ isPlaying' = IF didJustFinish THEN SetState(isPlaying, FALSE)
                    ELSE isPlaying
    /\ UNCHANGED <<isLoading, error, recordingDetails, sound, isLoadingAudio,
                   fetchPc, downloadPc, pressed, mounted>>

\* -------------------------------------------------------------------- Next

\* The recording service.
Next ==
    \/ \E p \in Creators : createRecording(p) /\ UNCHANGED viewVars
    \/ \E id \in RequestIds : getRecording_findUnique(id) /\ UNCHANGED viewVars
    \/ getRecording_generatePresignedUrl /\ UNCHANGED viewVars
    \/ \E u \in Users : listRecordings(u) /\ UNCHANGED viewVars
    \/ ReaderDone /\ UNCHANGED viewVars
    \/ \E id \in RequestIds : deleteRecording(id) /\ UNCHANGED viewVars
    \/ \E id \in RequestIds, title \in UpdateTitles,
          transcript \in UpdateTranscripts :
           updateRecording(id, title, transcript) /\ UNCHANGED viewVars

Spec == Init /\ [][Next]_vars

\* The detail view.
ViewNext ==
    \/ fetchRecordingDetails_begin /\ UNCHANGED backendVars
    \/ \E ok \in BOOLEAN :
           fetchRecordingDetails_getToken(ok) /\ UNCHANGED backendVars
    \/ \E outcome \in FetchOutcomes :
           fetchRecordingDetails_fetch(outcome) /\ UNCHANGED backendVars
    \/ \E body \in JsonBodies :
           fetchRecordingDetails_json(body) /\ UNCHANGED backendVars
    \/ \E ok \in BOOLEAN :
           downloadAudio_downloadAsync(ok) /\ UNCHANGED backendVars
    \/ \E ok \in BOOLEAN :
           downloadAudio_createAsync(ok) /\ UNCHANGED backendVars
    \/ Unmount /\ UNCHANGED backendVars
    \/ playRecording_press /\ UNCHANGED backendVars
    \/ playRecording_settle /\ UNCHANGED backendVars
    \/ \E i \in DOMAIN players :
           onPlaybackStatusUpdate(i) /\ UNCHANGED backendVars

ViewSpec == Init /\ [][ViewNext]_vars

\* ================================================================== claims

\* The invocation that inserted Conversation `id`.
CreatorOf(id) ==
    CHOOSE p \in Creators :
        newRecording[p] # Null /\ newRecording[p][1].row.id = id
HasCreator(id) ==
    \E p \in Creators :
        newRecording[p] # Null /\ newRecording[p][1].row.id = id

\* The labels and utterances the transcription result of an invocation
\* supplied, by position.
SuppliedTopics(p) ==
    LET a == transcription[p][1].allTopics IN
    IF a = Null THEN {} ELSE { <<i, a[1][i]>> : i \in DOMAIN a[1] }
SuppliedUtterances(p) ==
    LET a == transcription[p][1].allUtterances IN
    IF a = Null THEN {} ELSE { <<i, a[1][i]>> : i \in DOMAIN a[1] }

\* Child rows ts / us are exactly the children supplied for Conversation id.
ChildrenComplete(id, ts, us) ==
    /\ HasCreator(id)
    /\ Cardinality(ts) = Cardinality(SuppliedTopics(CreatorOf(id)))
    /\ Cardinality(us) = Cardinality(SuppliedUtterances(CreatorOf(id)))
    /\ { <<t.n, t.topic>> : t \in ts } = SuppliedTopics(CreatorOf(id))
    /\ { <<u.n, [speaker |-> u.speaker, transcript |-> u.transcript,
                 start |-> u.start, end |-> u.end]>> : u \in us }
         = SuppliedUtterances(CreatorOf(id))
TopicsComplete(id, ts) ==
    /\ HasCreator(id)
    /\ Cardinality(ts) = Cardinality(SuppliedTopics(CreatorOf(id)))
    /\ { <<t.n, t.topic>> : t \in ts } = SuppliedTopics(CreatorOf(id))

\* C1: a Recording is never visible without all the Topic and Utterance
\* children its transcription result supplied: not in the tables, not in what
\* findUnique handed to getRecording, not in what getRecording returned, not
\* in what listRecordings returned.
C1_ChildrenVisibleWithRecording ==
    /\ \A r \in conversations :
           ChildrenComplete(r.id,
                            { t \in topics : t.conversationId = r.id },
                            { u \in utterances : u.conversationId = r.id })
    /\ conversation # Null =>
           ChildrenComplete(conversation[1].row.id, conversation[1].topics,
                            conversation[1].utterances)
    /\ response # Null =>
           ChildrenComplete(response[1].conversation.row.id,
                            response[1].conversation.topics,
                            response[1].conversation.utterances)
    /\ \A info \in conversationsInfo : TopicsComplete(info.id, info.topics)

\* A reader holds a Recording with its children while another creation is
\* waiting for its insert.
C1_Witness ==
    /\ readerPc = "returned"
    /\ response # Null
    /\ response[1].conversation.topics # {}
    /\ response[1].conversation.utterances # {}
    /\ \E p \in Creators : pc[p] = "create"

\* C2: once an invocation of createRecording has finished, returned or
\* failed, its scratch file no longer exists.
C2_ScratchFileRemoved ==
    \A p \in Creators :
        pc[p] \in {"done", "failed"} => tempFilePath[p] \notin DOMAIN fs

\* C3: the recordingUrl of a getRecording payload resolves to exactly the
\* bytes submitted to the createRecording call that made the Recording, and
\* the object at every existing Recording's file_path holds those bytes.
C3_UrlResolvesToUploadedBytes ==
    /\ (readerPc = "returned" /\ response # Null) =>
           /\ HasCreator(response[1].conversation.row.id)
           /\ Fetch(response[1].recordingUrl) =
                  Some(recordingBody[CreatorOf(response[1].conversation.row.id)])
    /\ \A r \in conversations :
           /\ HasCreator(r.id)
           /\ Fetch(PresignedUrl(r.file_path)) =
                  Some(recordingBody[CreatorOf(r.id)])

\* getRecording returned a Recording after an update, while the same user's
\* other creation, of different bytes, is in the bucket too.
C3_Witness ==
    /\ readerPc = "returned"
    /\ response # Null
    /\ nUpdates > 0
    /\ \E q \in Creators :
           /\ q # CreatorOf(response[1].conversation.row.id)
           /\ userId[q] = response[1].conversation.row.userId
           /\ recordingBody[q] #
                  recordingBody[CreatorOf(response[1].conversation.row.id)]
           /\ filePath[q] \in DOMAIN storage

\* C4: every Topic row and every Utterance row belongs to exactly one
\* Recording that exists; none is left of a deleted Recording.
C4_NoOrphans ==
    /\ \A t \in topics : Cardinality(RowsWithId(t.conversationId)) = 1
    /\ \A u \in utterances : Cardinality(RowsWithId(u.conversationId)) = 1
    /\ \A p \in Creators :
           (newRecording[p] # Null /\ RowsWithId(newRecording[p][1].row.id) = {})
           => /\ \A t \in topics : t.conversationId # newRecording[p][1].row.id
              /\ \A u \in utterances :
                     u.conversationId # newRecording[p][1].row.id

\* A Recording that was inserted with topics and utterances has been deleted
\* while another Recording with children remains.
C4_Witness ==
    /\ \E p \in Creators :
           /\ newRecording[p] # Null
           /\ transcription[p][1].allTopics # Null
           /\ transcription[p][1].allUtterances # Null
           /\ RowsWithId(newRecording[p][1].row.id) = {}
    /\ topics # {}
    /\ utterances # {}

\* What an update that gives only a title, or only a transcript, leaves as it
\* was; `fields` are the Recording's own fields held to be unchanged.
UpdateLeaves(fields) ==
    \A id \in RequestIds, title \in UpdateTitles, transcript \in UpdateTranscripts :
        ( /\ updateRecording(id, title, transcript)
          /\ (title = Undefined) # (transcript = Undefined) )
        => /\ topics' = topics
           /\ utterances' = utterances
           /\ storage' = storage
           /\ \A r \in conversations :
                  \E r2 \in conversations' :
                      /\ r2.id = r.id
                      /\ r.id # id => r2 = r
                      /\ \A f \in fields : r2[f] = r[f]
                      /\ title = Undefined => r2.title = r.title
                      /\ transcript = Undefined => r2.transcript = r.transcript
           /\ Cardinality(conversations') = Cardinality(conversations)

\* C5 (as claimed): updateRecording with only a title leaves the transcript,
\* with only a transcript leaves the title, and in both cases every other
\* field of the Recording, its children and all other Recordings unchanged.
C5_UpdateLeavesAllOtherFields ==
    [][UpdateLeaves({"id", "userId", "recording_url", "file_path", "summary",
                     "duration", "createdAt", "updatedAt"})]_vars

\* C5 (amended): as claimed, for every other field but the update timestamp.
C5_UpdateLeavesOtherFields ==
    [][UpdateLeaves({"id", "userId", "recording_url", "file_path", "summary",
                     "duration", "createdAt"})]_vars

\* A Recording with children was renamed and kept the transcript it was
\* inserted with.
C5_Witness ==
    \E r \in conversations :
        /\ r.title = "renamed"
        /\ r.updatedAt > r.createdAt
        /\ HasCreator(r.id)
        /\ r.transcript = transcription[CreatorOf(r.id)][1].transcript
        /\ \E t \in topics : t.conversationId = r.id

\* C6: getRecording on an id with no Recording returns null at once: no
\* rejection, no signed URL, database, bucket and scratch directory as before.
C6_GetMissingReturnsNull ==
    [][\A id \in RequestIds :
           (getRecording_findUnique(id) /\ RowsWithId(id) = {})
           => /\ readerPc' = "returned"
              /\ response' = Null
              /\ recordingUrl' = Null
              /\ UNCHANGED <<dbVars, storage, fs>>]_vars

\* getRecording returned null for the id of a deleted Recording whose audio
\* is still in the bucket.
C6_Witness ==
    /\ readerPc = "returned"
    /\ response = Null
    /\ recordingUrl = Null
    /\ recordingId > 0
    /\ recordingId < nextConvId
    /\ storage # <<>>

\* C7: the view is in loading until fetchRecordingDetails has completed, and
\* from then on in exactly one of error and loaded.
C7_ErrorOrLoadedAfterFetch ==
    /\ (mounted /\ fetchPc # "done") => Phase = "loading"
    /\ (mounted /\ fetchPc = "done") => Phase \in {"error", "loaded"}

\* Downloads in flight plus players that are loaded.
LiveAudio ==
    (IF downloadPc \in {"downloadAsync", "createAsync"} THEN 1 ELSE 0)
    + Cardinality({ i \in DOMAIN players : players[i].isLoaded })

\* C8: at most one audio download or player is live at a time, and once the
\* view has unmounted and no download is in flight every player made for it
\* has been unloaded.
C8_OnePlayerReleasedOnUnmount ==
    /\ LiveAudio <= 1
    /\ (~mounted /\ downloadPc \notin {"downloadAsync", "createAsync"})
       => \A i \in DOMAIN players : ~players[i].isLoaded

\* No Recording refers to the storage key of invocation p.
NoRowFor(p) == \A r \in conversations : r.file_path # filePath[p]

\* C9: the steps run in the order probe, transcribe, upload, insert; a failed
\* step leaves every later step undone and no Recording row, and nothing is
\* compensated: after a failed insert the uploaded object is still in the
\* bucket and no Recording refers to it.
C9_StepsInOrderNoCompensation ==
    \A p \in Creators :
        /\ transcription[p] # Null => durationInSeconds[p] # Null
        /\ filePath[p] \in DOMAIN storage => transcription[p] # Null
        /\ newRecording[p] # Null => filePath[p] \in DOMAIN storage
        /\ ~NoRowFor(p) => newRecording[p] # Null
        /\ pc[p] = "failed" =>
               /\ newRecording[p] = Null
               /\ NoRowFor(p)
               /\ failedAt[p] \in {"writeFile", "getAudioDuration"}
                      => durationInSeconds[p] = Null
               /\ failedAt[p] \in {"writeFile", "getAudioDuration", "unlink",
                                   "transcribeFile"}
                      => transcription[p] = Null /\ filePath[p] = ""
               /\ failedAt[p] = "uploadBuffer"
                      => filePath[p] \notin DOMAIN storage
               /\ failedAt[p] = "create"
                      => /\ filePath[p] \in DOMAIN storage
                         /\ storage[filePath[p]] = recordingBody[p]

\* An insert failed after its upload, beside a creation that succeeded.
C9_Witness ==
    \E p, q \in Creators :
        /\ pc[p] = "failed"
        /\ failedAt[p] = "create"
        /\ filePath[p] \in DOMAIN storage
        /\ pc[q] = "done"

\* C10: two createRecording calls never share a scratch path or a storage
\* key; each probes, unlinks and uploads its own bytes; and each Recording
\* has the duration, transcript and children of its own call.
C10_CreationsIndependent ==
    /\ \A p, q \in Creators :
           p # q =>
               /\ (tempFilePath[p] # "" /\ tempFilePath[q] # "")
                      => tempFilePath[p] # tempFilePath[q]
               /\ (filePath[p] # "" /\ filePath[q] # "")
                      => filePath[p] # filePath[q]
               /\ (newRecording[p] # Null /\ newRecording[q] # Null)
                      => newRecording[p][1].row.id # newRecording[q][1].row.id
    /\ \A p \in Creators :
           /\ pc[p] \in {"getAudioDuration", "unlink"}
                  => /\ tempFilePath[p] \in DOMAIN fs
                     /\ fs[tempFilePath[p]] = recordingBody[p]
           /\ durationInSeconds[p] # Null
                  => /\ Decodable(recordingBody[p])
                     /\ 10 * durationInSeconds[p][1] - 5
                            <= PlaybackTenths(recordingBody[p])
                     /\ PlaybackTenths(recordingBody[p])
                            < 10 * durationInSeconds[p][1] + 5
           /\ filePath[p] \in DOMAIN storage
                  => storage[filePath[p]] = recordingBody[p]
           /\ newRecording[p] # Null
                  => /\ newRecording[p][1].row.duration = durationInSeconds[p][1]
                     /\ newRecording[p][1].row.userId = userId[p]
                     /\ newRecording[p][1].row.file_path = filePath[p]
                     /\ newRecording[p][1].row.transcript
                            = transcription[p][1].transcript
                     /\ newRecording[p][1].transcript
                            = transcription[p][1].transcript
           /\ \A r \in conversations :
                  (newRecording[p] # Null /\ r.id = newRecording[p][1].row.id)
                  => /\ r.duration = durationInSeconds[p][1]
                     /\ r.file_path = filePath[p]
                     /\ { <<t.n, t.topic>> :
                          t \in { x \in topics : x.conversationId = r.id } }
                            = SuppliedTopics(p)

\* Two creations of the same user, of different bytes, both succeeded and
\* both Recordings exist.
C10_Witness ==
    \E p, q \in Creators :
        /\ p # q
        /\ pc[p] = "done" /\ pc[q] = "done"
        /\ userId[p] = userId[q]
        /\ recordingBody[p] # recordingBody[q]
        /\ durationInSeconds[p] # durationInSeconds[q]
        /\ RowsWithId(newRecording[p][1].row.id) # {}
        /\ RowsWithId(newRecording[q][1].row.id) # {}

====
